---- MODULE Spec2Model ----
(***************************************************************************)
(* Model of final-project.py: the register codec (Csr, Coef, Outcap), the   *)
(* device session (Uad) and the signed conversion helper (twos_comp).       *)
(*                                                                          *)
(* Python integers are unbounded.  A register word is modelled exactly as   *)
(* the set of positions of its 1 bits, so that shifts, masks and ors are    *)
(* computed as the code computes them for any width; field values and       *)
(* samples, which stay small, are ordinary integers.                        *)
(***************************************************************************)
EXTENDS Integers, Sequences, FiniteSets, TLC

VARIABLES
    bin,      \* codec: the raw word handed to the register constructor
    layout,   \* codec: which register class is exercised
    obj,      \* codec: the register object (attribute name -> value)
    asg,      \* codec: <<>> or <<field, value>>, the one assignment made
    enc,      \* codec: the word obj.encode() returned
    obj2,     \* codec: the object decoded again from enc
    phase,    \* codec: "decoded", "assigned", "encoded", "redecoded", "off"
    num,      \* conversion: the argument of twos_comp
    conv,     \* conversion: the value twos_comp returned
    mem,      \* device: the word held at each register address
    dev_en,   \* device: enabled (configure operations are served)
    por,      \* device: the power-on image a reset restores
    snap,     \* session: self.csr, self.coef, self.outcap
    last,     \* session: the last call, its result and the device operations it issued
    nops,     \* session: number of calls made so far
    test,     \* main: args.test, the scenario run
    args,     \* main: the value argument, the contents of the input file, and
              \*       what the device held when the run started
    pc,       \* main: the statement reached
    loc,      \* main: local variables csr, coef, outcap (or reg), sig_out, row index
    own,      \* main: per local, whether it is the object the session holds, and
              \*       how many device operations had been issued when it was read
    output,   \* main: what was printed or written to output.vec, in order
    log       \* main: the device operations issued, in order

vars == <<bin, layout, obj, asg, enc, obj2, phase, num, conv,
          mem, dev_en, por, snap, last, nops, test, args, pc, loc, own, output, log>>
codecVars == <<bin, layout, obj, asg, enc, obj2, phase>>
convVars == <<num, conv>>
sessVars == <<mem, dev_en, por, snap, last, nops>>
mainVars == <<test, args, pc, loc, own, output, log>>

(***************************************************************************)
(* Bounds                                                                   *)
(***************************************************************************)
MaxOps == 3          \* session calls per behaviour
MaxNum == 300        \* largest argument tried for twos_comp
MaxRows == 2         \* rows of the input file of the config and por scenarios
MaxSamples == 2      \* lines of the input file of the drive scenario

(***************************************************************************)
(* Integers as bit sets                                                     *)
(***************************************************************************)
RECURSIVE Bits(_)
Bits(n) == IF n = 0 THEN {}
           ELSE (IF n % 2 = 1 THEN {0} ELSE {}) \cup {b + 1 : b \in Bits(n \div 2)}

RECURSIVE Val(_)
Val(S) == IF S = {} THEN 0
          ELSE LET b == CHOOSE c \in S : TRUE IN 2^b + Val(S \ {b})

Shr(S, k) == {b - k : b \in {c \in S : c >= k}}
Shl(S, k) == {b + k : b \in S}
And(S, T) == S \cap T
Or(S, T) == S \cup T

\* (word >> k) & m, as an integer field value
Field(word, k, m) == Val(And(Shr(word, k), Bits(m)))
\* (value & m) << k, as a word
Place(value, m, k) == Shl(And(Bits(value), Bits(m)), k)

RECURSIVE OrAll(_)
OrAll(ws) == IF ws = <<>> THEN {} ELSE Or(Head(ws), OrAll(Tail(ws)))

(***************************************************************************)
(* Register codec                                                           *)
(***************************************************************************)
CSR_ADDR == 0
COEF_ADDR == 4
OUTCAP_ADDR == 8
Addrs == {CSR_ADDR, COEF_ADDR, OUTCAP_ADDR}

Csr(csr_bin) ==
    [fen   |-> Field(csr_bin, 0, 1),
     c0en  |-> Field(csr_bin, 1, 1),
     c1en  |-> Field(csr_bin, 2, 1),
     c2en  |-> Field(csr_bin, 3, 1),
     c3en  |-> Field(csr_bin, 4, 1),
     halt  |-> Field(csr_bin, 5, 1),
     sts   |-> Field(csr_bin, 6, 3),
     ibcnt |-> Field(csr_bin, 8, 255),
     ibovf |-> Field(csr_bin, 16, 1),
     ibclr |-> Field(csr_bin, 17, 1),
     tclr  |-> Field(csr_bin, 18, 1),
     rnd   |-> Field(csr_bin, 19, 3),
     icoef |-> Field(csr_bin, 21, 1),
     icap  |-> Field(csr_bin, 22, 1),
     rsvd  |-> Field(csr_bin, 23, 65535)]

Csr_encode(self) ==
    OrAll(<<Place(self.fen, 1, 0),
            Place(self.c0en, 1, 1),
            Place(self.c1en, 1, 2),
            Place(self.c2en, 1, 3),
            Place(self.c3en, 1, 4),
            Place(self.halt, 1, 5),
            Place(self.sts, 3, 6),
            Place(self.ibcnt, 255, 8),
            Place(self.ibovf, 1, 16),
            Place(self.ibclr, 1, 17),
            Place(self.tclr, 1, 18),
            Place(self.rnd, 3, 19),
            Place(self.icoef, 1, 21),
            Place(self.icap, 1, 22),
            Place(self.rsvd, 1023, 23)>>)

Coef(coef_bin) ==
    [c0 |-> Field(coef_bin, 0, 255),
     c1 |-> Field(coef_bin, 8, 255),
     c2 |-> Field(coef_bin, 16, 255),
     c3 |-> Field(coef_bin, 24, 255)]

\* mutant: c1 and c2 are placed in each other's byte
Coef_encode_swapped(self) ==
    OrAll(<<Place(self.c0, 255, 0),
            Place(self.c1, 255, 16),
            Place(self.c2, 255, 8),
            Place(self.c3, 255, 24)>>)

Coef_encode(self) ==
    OrAll(<<Place(self.c0, 255, 0),
            Place(self.c1, 255, 8),
            Place(self.c2, 255, 16),
            Place(self.c3, 255, 24)>>)

Outcap(outcap_bin) ==
    [hcap |-> Field(outcap_bin, 0, 255),
     lcap |-> Field(outcap_bin, 8, 255),
     rsvd |-> Field(outcap_bin, 16, 65535)]

Outcap_encode(self) ==
    OrAll(<<Place(self.hcap, 255, 0),
            Place(self.lcap, 255, 8),
            Place(self.rsvd, 255, 16)>>)

RegNames == {"csr", "coef", "outcap"}

\* the constructor and the encode method of the class behind a register name
Decode(r, w) == CASE r = "csr" -> Csr(w)
                  [] r = "coef" -> Coef(w)
                  [] r = "outcap" -> Outcap(w)

Encode(r, self) == CASE r = "csr" -> Csr_encode(self)
                     [] r = "coef" -> Coef_encode(self)
                     [] r = "outcap" -> Outcap_encode(self)

\* the attributes a constructor creates
Attrs(r) == DOMAIN Decode(r, {})

\* Python's setattr on a plain object: creates the attribute when it is missing
SetAttr(self, name, value) ==
    [a \in DOMAIN self \cup {name} |-> IF a = name THEN value ELSE self[a]]

(***************************************************************************)
(* Signed conversion                                                        *)
(***************************************************************************)
\* mutant: the low-bits mask is dropped
twos_comp_nomask(n) ==
    [n |-> n + (IF Val(Shr(Bits(n), 7)) = 1 THEN -128 ELSE 0),
     d |-> 64]

\* ((num & 0x7F) + (-128 if num >> 7 == 0x1 else 0)) / 64, as the exact
\* fraction n/d (a quotient by 64 of an integer this small is exact in floats)
twos_comp(n) ==
    [n |-> Val(And(Bits(n), Bits(127))) + (IF Val(Shr(Bits(n), 7)) = 1 THEN -128 ELSE 0),
     d |-> 64]

(***************************************************************************)
(* Inputs                                                                   *)
(***************************************************************************)
AllOnes == 0 .. 31

\* 32-bit words: zero, all ones, every single bit, every single hole, patterns
SampleWords ==
    {{}, AllOnes}
      \cup {{k} : k \in AllOnes}
      \cup {AllOnes \ {k} : k \in AllOnes}
      \cup {{k \in AllOnes : k % 2 = 0}, {k \in AllOnes : k % 2 = 1},
            {k \in AllOnes : k >= 16}, {k \in AllOnes : k < 16},
            {k \in AllOnes : k >= 24}, {k \in AllOnes : k >= 23}}

\* values assigned to fields: in range, and wider than every field
AssignValues == {0, 1, 2, 3, 255, 256, 511, 1023, 1024, 2047, 65535, 65536, 131071}

NoObj == [NoneType |-> TRUE]

\* return values: None, an int, a register object
RetNone == [t |-> "None"]
RetInt(n) == [t |-> "int", v |-> n]
RetObj(o) == [t |-> "obj", v |-> o]

(***************************************************************************)
(* Codec workbench: decode a word, optionally assign one field, encode,     *)
(* decode again                                                             *)
(***************************************************************************)
CodecAssign ==
    /\ phase = "decoded"
    /\ \E f \in Attrs(layout), v \in AssignValues :
          /\ obj' = SetAttr(obj, f, v)
          /\ asg' = <<f, v>>
    /\ phase' = "assigned"
    /\ UNCHANGED <<bin, layout, enc, obj2>>

CodecEncode ==
    /\ phase \in {"decoded", "assigned"}
    /\ enc' = Encode(layout, obj)
    /\ phase' = "encoded"
    /\ UNCHANGED <<bin, layout, obj, asg, obj2>>

CodecDecode ==
    /\ phase = "encoded"
    /\ obj2' = Decode(layout, enc)
    /\ phase' = "redecoded"
    /\ UNCHANGED <<bin, layout, obj, asg, enc>>

CodecOff ==
    /\ bin = {} /\ layout = "csr" /\ obj = NoObj /\ asg = <<>>
    /\ enc = {} /\ obj2 = NoObj /\ phase = "off"

ConvOff == num = 0 /\ conv = [n |-> 0, d |-> 1]

SessOff ==
    /\ mem = [a \in Addrs |-> {}]
    /\ dev_en = TRUE
    /\ por = [a \in Addrs |-> {}]
    /\ snap = [r \in RegNames |-> NoObj]
    /\ last = [op |-> "none", reg |-> "", name |-> "", ret |-> RetNone,
               raised |-> FALSE, ops |-> <<>>]
    /\ nops = 0

NoArgs == [reg |-> "", field |-> "", value |-> 0, rows |-> <<>>, samples |-> <<>>,
           start |-> [a \in Addrs |-> {}]]
NoLocals == [csr |-> NoObj, coef |-> NoObj, outcap |-> NoObj, sig_out |-> <<>>, i |-> 1]
NoOwn == [r \in {"csr", "coef", "outcap"} |-> [same |-> FALSE, born |-> 0]]

MainOff ==
    /\ test = "" /\ args = NoArgs /\ pc = "off"
    /\ loc = NoLocals /\ own = NoOwn /\ output = <<>> /\ log = <<>>

InitCodec ==
    /\ bin \in SampleWords
    /\ layout \in RegNames
    /\ obj = Decode(layout, bin)
    /\ asg = <<>>
    /\ enc = {}
    /\ obj2 = NoObj
    /\ phase = "decoded"
    /\ ConvOff
    /\ SessOff
    /\ MainOff

NextCodec ==
    \/ CodecAssign /\ UNCHANGED convVars /\ UNCHANGED sessVars /\ UNCHANGED mainVars
    \/ CodecEncode /\ UNCHANGED convVars /\ UNCHANGED sessVars /\ UNCHANGED mainVars
    \/ CodecDecode /\ UNCHANGED convVars /\ UNCHANGED sessVars /\ UNCHANGED mainVars

SpecCodec == InitCodec /\ [][NextCodec]_vars

(***************************************************************************)
(* Conversion workbench                                                     *)
(***************************************************************************)
Convert ==
    /\ conv = [n |-> 0, d |-> 1]
    /\ conv' = twos_comp(num)
    /\ UNCHANGED num

InitConv ==
    /\ num \in 0 .. MaxNum
    /\ conv = [n |-> 0, d |-> 1]
    /\ CodecOff
    /\ SessOff
    /\ MainOff

NextConv == Convert /\ UNCHANGED codecVars /\ UNCHANGED sessVars /\ UNCHANGED mainVars

SpecConv == InitConv /\ [][NextConv]_vars

(***************************************************************************)
(* Command-line text: str(), hex() and int(text, 0)                         *)
(***************************************************************************)
RECURSIVE DecDigits(_)
DecDigits(n) == IF n < 10 THEN <<n>> ELSE Append(DecDigits(n \div 10), n % 10)

\* str(n): decimal digits, most significant first
str(n) == [base |-> 10, digits |-> DecDigits(n)]

Nibble(w, j) == Val({b - 4 * j : b \in {c \in w : c >= 4 * j /\ c < 4 * j + 4}})

\* hex(w): "0x" and the hexadecimal digits, most significant first
hex(w) ==
    LET top == IF w = {} THEN 0 ELSE (CHOOSE b \in w : \A c \in w : c <= b) \div 4
    IN  [base |-> 16, digits |-> [i \in 1 .. top + 1 |-> Nibble(w, top + 1 - i)]]

RECURSIVE DecValue(_)
DecValue(ds) == IF ds = <<>> THEN 0
                ELSE 10 * DecValue(SubSeq(ds, 1, Len(ds) - 1)) + ds[Len(ds)]

\* int(text, 0): the base is taken from the prefix
int0(t) ==
    IF t.base = 16
    THEN UNION {Shl(Bits(t.digits[i]), 4 * (Len(t.digits) - i)) : i \in 1 .. Len(t.digits)}
    ELSE Bits(DecValue(t.digits))

(***************************************************************************)
(* The device process (spec, section 6): configure, command and signal      *)
(* operations, each reporting a status; a disabled device refuses configure *)
(* operations, and any operation may fail                                   *)
(***************************************************************************)
NoText == [base |-> 10, digits |-> <<>>]

\* uad cfg --address A
DevCfgRead(m, en, addrText) ==
    LET a == Val(int0(addrText)) IN
    {[status |-> 1, stdout |-> NoText]}
      \cup (IF en /\ a \in Addrs THEN {[status |-> 0, stdout |-> hex(m[a])]} ELSE {})

\* uad cfg --address A --data D
DevCfgWrite(m, en, addrText, dataText) ==
    LET a == Val(int0(addrText)) IN
    {[status |-> 1, mem |-> m]}
      \cup (IF en /\ a \in Addrs
            THEN {[status |-> 0, mem |-> [m EXCEPT ![a] = And(int0(dataText), AllOnes)]]}
            ELSE {})

\* uad com --action X
DevCom(m, en, image, action) ==
    {[status |-> 1, mem |-> m, en |-> en],
     [status |-> 0,
      mem |-> IF action = "reset" THEN image ELSE m,
      en |-> CASE action = "enable" -> TRUE
               [] action = "disable" -> FALSE
               [] OTHER -> en]}

SigResponses == {0, 64, 128, 255}

\* uad sig --data S
DevSig(dataText) ==
    {[status |-> 1, stdout |-> NoText]}
      \cup {[status |-> 0, stdout |-> str(y)] : y \in SigResponses}

(***************************************************************************)
(* Device session (class Uad).  A method is the set of its outcomes in a    *)
(* device state (m, en) and a session state s: the device operations it     *)
(* issued in order (ops), its return value (ret), whether it raised, and    *)
(* the device and session state it leaves.                                  *)
(***************************************************************************)
ComOp(action, status) == [kind |-> "com", action |-> action, status |-> status]
SigOp(dataText, status, out) ==
    [kind |-> "sig", data |-> dataText, status |-> status, out |-> out]
ReadOp(addrText, status, out) ==
    [kind |-> "cfg_read", addr |-> addrText, status |-> status, out |-> out]
WriteOp(addrText, dataText, status) ==
    [kind |-> "cfg_write", addr |-> addrText, data |-> dataText, status |-> status]

Command(m, en, image, s, action) ==
    {[mem |-> d.mem, en |-> d.en, snap |-> s, ret |-> RetInt(d.status), raised |-> FALSE,
      ops |-> <<ComOp(action, d.status)>>] : d \in DevCom(m, en, image, action)}

\* mutant: a reset drops the session's snapshots
reset_dropsnap(m, en, image, s) ==
    {[o EXCEPT !.snap = [r \in DOMAIN s |-> NoObj]] : o \in Command(m, en, image, s, "reset")}

reset(m, en, image, s) == Command(m, en, image, s, "reset")
\* mutant: enable sends the disable action
enable_as_disable(m, en, image, s) == Command(m, en, image, s, "disable")

disable(m, en, image, s) == Command(m, en, image, s, "disable")
enable(m, en, image, s) == Command(m, en, image, s, "enable")

\* subprocess.check_output raises CalledProcessError on a nonzero status
drive_signal(m, en, s, sig_in) ==
    {[mem |-> m, en |-> en, snap |-> s,
      ret |-> IF d.status = 0 THEN RetInt(Val(int0(d.stdout))) ELSE RetNone,
      raised |-> d.status # 0,
      ops |-> <<SigOp(str(sig_in), d.status, d.stdout)>>] : d \in DevSig(str(sig_in))}

\* mutant: the read is tried a second time when it fails
get_csr_retry(m, en, s) ==
    UNION {
      IF first.status # 0
      THEN {IF proc.status # 0
            THEN [mem |-> m, en |-> en, snap |-> s, ret |-> RetNone, raised |-> FALSE,
                  ops |-> <<ReadOp(str(CSR_ADDR), first.status, first.stdout),
                            ReadOp(str(CSR_ADDR), proc.status, proc.stdout)>>]
            ELSE [mem |-> m, en |-> en, snap |-> [s EXCEPT !.csr = Csr(int0(proc.stdout))],
                  ret |-> RetObj(Csr(int0(proc.stdout))), raised |-> FALSE,
                  ops |-> <<ReadOp(str(CSR_ADDR), first.status, first.stdout),
                            ReadOp(str(CSR_ADDR), proc.status, proc.stdout)>>]
              : proc \in DevCfgRead(m, en, str(CSR_ADDR))}
      ELSE {[mem |-> m, en |-> en, snap |-> [s EXCEPT !.csr = Csr(int0(first.stdout))],
             ret |-> RetObj(Csr(int0(first.stdout))), raised |-> FALSE,
             ops |-> <<ReadOp(str(CSR_ADDR), first.status, first.stdout)>>]}
        : first \in DevCfgRead(m, en, str(CSR_ADDR))}

get_csr(m, en, s) ==
    {IF proc.status # 0
     THEN [mem |-> m, en |-> en, snap |-> s, ret |-> RetNone, raised |-> FALSE,
           ops |-> <<ReadOp(str(CSR_ADDR), proc.status, proc.stdout)>>]
     ELSE LET csr_bin == int0(proc.stdout) IN
          [mem |-> m, en |-> en, snap |-> [s EXCEPT !.csr = Csr(csr_bin)],
           ret |-> RetObj(Csr(csr_bin)), raised |-> FALSE,
           ops |-> <<ReadOp(str(CSR_ADDR), proc.status, proc.stdout)>>]
       : proc \in DevCfgRead(m, en, str(CSR_ADDR))}

\* mutant: the coefficient read goes to the CSR address
get_coef_wrongaddr(m, en, s) ==
    {IF proc.status # 0
     THEN [mem |-> m, en |-> en, snap |-> s, ret |-> RetNone, raised |-> FALSE,
           ops |-> <<ReadOp(str(CSR_ADDR), proc.status, proc.stdout)>>]
     ELSE LET coef_bin == int0(proc.stdout) IN
          [mem |-> m, en |-> en, snap |-> [s EXCEPT !.coef = Coef(coef_bin)],
           ret |-> RetObj(Coef(coef_bin)), raised |-> FALSE,
           ops |-> <<ReadOp(str(CSR_ADDR), proc.status, proc.stdout)>>]
       : proc \in DevCfgRead(m, en, str(CSR_ADDR))}

get_coef(m, en, s) ==
    {IF proc.status # 0
     THEN [mem |-> m, en |-> en, snap |-> s, ret |-> RetNone, raised |-> FALSE,
           ops |-> <<ReadOp(str(COEF_ADDR), proc.status, proc.stdout)>>]
     ELSE LET coef_bin == int0(proc.stdout) IN
          [mem |-> m, en |-> en, snap |-> [s EXCEPT !.coef = Coef(coef_bin)],
           ret |-> RetObj(Coef(coef_bin)), raised |-> FALSE,
           ops |-> <<ReadOp(str(COEF_ADDR), proc.status, proc.stdout)>>]
       : proc \in DevCfgRead(m, en, str(COEF_ADDR))}

\* mutant: the object is returned but not stored in self.outcap
get_outcap_nostore(m, en, s) ==
    {IF proc.status # 0
     THEN [mem |-> m, en |-> en, snap |-> s, ret |-> RetNone, raised |-> FALSE,
           ops |-> <<ReadOp(str(OUTCAP_ADDR), proc.status, proc.stdout)>>]
     ELSE LET outcap_bin == int0(proc.stdout) IN
          [mem |-> m, en |-> en, snap |-> s,
           ret |-> RetObj(Outcap(outcap_bin)), raised |-> FALSE,
           ops |-> <<ReadOp(str(OUTCAP_ADDR), proc.status, proc.stdout)>>]
       : proc \in DevCfgRead(m, en, str(OUTCAP_ADDR))}

get_outcap(m, en, s) ==
    {IF proc.status # 0
     THEN [mem |-> m, en |-> en, snap |-> s, ret |-> RetNone, raised |-> FALSE,
           ops |-> <<ReadOp(str(OUTCAP_ADDR), proc.status, proc.stdout)>>]
     ELSE LET outcap_bin == int0(proc.stdout) IN
          [mem |-> m, en |-> en, snap |-> [s EXCEPT !.outcap = Outcap(outcap_bin)],
           ret |-> RetObj(Outcap(outcap_bin)), raised |-> FALSE,
           ops |-> <<ReadOp(str(OUTCAP_ADDR), proc.status, proc.stdout)>>]
       : proc \in DevCfgRead(m, en, str(OUTCAP_ADDR))}

\* self.X.encode() on None raises AttributeError before the command is run
Raised(m, en, s) ==
    [mem |-> m, en |-> en, snap |-> s, ret |-> RetNone, raised |-> TRUE, ops |-> <<>>]

\* mutant: the status of the refresh read is returned
set_csr_readstatus(m, en, s) ==
    IF s.csr = NoObj THEN {Raised(m, en, s)}
    ELSE UNION {
           {[g EXCEPT !.ret = RetInt(g.ops[1].status),
                      !.ops = <<WriteOp(str(CSR_ADDR), hex(Csr_encode(s.csr)), w.status)>> \o g.ops]
              : g \in get_csr(w.mem, en, s)}
           : w \in DevCfgWrite(m, en, str(CSR_ADDR), hex(Csr_encode(s.csr)))}

set_csr(m, en, s) ==
    IF s.csr = NoObj THEN {Raised(m, en, s)}
    ELSE UNION {
           {[g EXCEPT !.ret = RetInt(w.status),
                      !.ops = <<WriteOp(str(CSR_ADDR), hex(Csr_encode(s.csr)), w.status)>> \o g.ops]
              : g \in get_csr(w.mem, en, s)}
           : w \in DevCfgWrite(m, en, str(CSR_ADDR), hex(Csr_encode(s.csr)))}

\* mutant: a missing snapshot is replaced by an all-zero register
set_coef_implicit(m, en, s) ==
    LET cur == IF s.coef = NoObj THEN Coef({}) ELSE s.coef IN
    UNION {
      {[g EXCEPT !.ret = RetInt(w.status),
                 !.ops = <<WriteOp(str(COEF_ADDR), hex(Coef_encode(cur)), w.status)>> \o g.ops]
         : g \in get_coef(w.mem, en, s)}
      : w \in DevCfgWrite(m, en, str(COEF_ADDR), hex(Coef_encode(cur)))}

set_coef(m, en, s) ==
    IF s.coef = NoObj THEN {Raised(m, en, s)}
    ELSE UNION {
           {[g EXCEPT !.ret = RetInt(w.status),
                      !.ops = <<WriteOp(str(COEF_ADDR), hex(Coef_encode(s.coef)), w.status)>> \o g.ops]
              : g \in get_coef(w.mem, en, s)}
           : w \in DevCfgWrite(m, en, str(COEF_ADDR), hex(Coef_encode(s.coef)))}

set_outcap(m, en, s) ==
    IF s.outcap = NoObj THEN {Raised(m, en, s)}
    ELSE UNION {
           {[g EXCEPT !.ret = RetInt(w.status),
                      !.ops = <<WriteOp(str(OUTCAP_ADDR), hex(Outcap_encode(s.outcap)), w.status)>> \o g.ops]
              : g \in get_outcap(w.mem, en, s)}
           : w \in DevCfgWrite(m, en, str(OUTCAP_ADDR), hex(Outcap_encode(s.outcap)))}

get_reg(reg_name, m, en, s) ==
    CASE reg_name = "csr" -> get_csr(m, en, s)
      [] reg_name = "coef" -> get_coef(m, en, s)
      [] reg_name = "outcap" -> get_outcap(m, en, s)

set_reg(reg_name, m, en, s) ==
    CASE reg_name = "csr" -> set_csr(m, en, s)
      [] reg_name = "coef" -> set_coef(m, en, s)
      [] reg_name = "outcap" -> set_outcap(m, en, s)

\* setattr(uad.<reg>, name, value) by the caller: on None it raises
\* AttributeError, on a register object it sets or creates the attribute
assign(reg_name, name, value, m, en, s) ==
    IF s[reg_name] = NoObj THEN {Raised(m, en, s)}
    ELSE {[mem |-> m, en |-> en,
           snap |-> [s EXCEPT ![reg_name] = SetAttr(s[reg_name], name, value)],
           ret |-> RetNone, raised |-> FALSE, ops |-> <<>>]}

(***************************************************************************)
(* Session behaviours: any sequence of at most MaxOps calls                 *)
(***************************************************************************)
Samples == {0, 200}
SessValues == {0, 1, 511}
AttrNames(r) == Attrs(r) \cup {"bogus"}

Step(op, reg, name, o) ==
    /\ mem' = o.mem
    /\ dev_en' = o.en
    /\ snap' = o.snap
    /\ last' = [op |-> op, reg |-> reg, name |-> name, ret |-> o.ret,
                raised |-> o.raised, ops |-> o.ops]
    /\ nops' = nops + 1
    /\ UNCHANGED <<por, codecVars, convVars, mainVars>>

Reset ==
    /\ nops < MaxOps
    /\ \E o \in reset(mem, dev_en, por, snap) : Step("reset", "", "", o)

Disable ==
    /\ nops < MaxOps
    /\ \E o \in disable(mem, dev_en, por, snap) : Step("disable", "", "", o)

Enable ==
    /\ nops < MaxOps
    /\ \E o \in enable(mem, dev_en, por, snap) : Step("enable", "", "", o)

Drive ==
    /\ nops < MaxOps
    /\ \E x \in Samples : \E o \in drive_signal(mem, dev_en, snap, x) :
          Step("drive", "", "", o)

Get ==
    /\ nops < MaxOps
    /\ \E r \in RegNames : \E o \in get_reg(r, mem, dev_en, snap) : Step("get", r, "", o)

Set ==
    /\ nops < MaxOps
    /\ \E r \in RegNames : \E o \in set_reg(r, mem, dev_en, snap) : Step("set", r, "", o)

Assign ==
    /\ nops < MaxOps
    /\ \E r \in RegNames : \E n \in AttrNames(r) : \E v \in SessValues :
          \E o \in assign(r, n, v, mem, dev_en, snap) : Step("assign", r, n, o)

\* power-on images: all zero, and one with bits set in every field
PorImages ==
    {[a \in Addrs |-> {}],
     [a \in Addrs |-> {k \in AllOnes : k % 3 # 1}]}

\* the device outlives a session: what it holds when the session starts need
\* not be its power-on image
Init ==
    /\ por \in PorImages
    /\ mem \in PorImages
    /\ dev_en \in BOOLEAN
    /\ snap = [r \in RegNames |-> NoObj]
    /\ last = [op |-> "none", reg |-> "", name |-> "", ret |-> RetNone,
               raised |-> FALSE, ops |-> <<>>]
    /\ nops = 0
    /\ CodecOff
    /\ ConvOff
    /\ MainOff

Next ==
    \/ Reset
    \/ Disable
    \/ Enable
    \/ Drive
    \/ Get
    \/ Set
    \/ Assign

Spec == Init /\ [][Next]_vars

(***************************************************************************)
(* main(): the test scenarios.  One action per statement that calls the     *)
(* session or touches a register object; an uncaught exception ends the run *)
(* at "crashed".                                                            *)
(***************************************************************************)
LogOf(ops, en) == [i \in 1 .. Len(ops) |-> [op |-> ops[i], en |-> en]]

\* a Uad method was called: the device, the session and the operation log after it
Apply(o) ==
    /\ mem' = o.mem
    /\ dev_en' = o.en
    /\ snap' = o.snap
    /\ log' = log \o LogOf(o.ops, dev_en)

\* x = uad.get_<r>(): the local is the object returned, or None
Bound(r, o) ==
    /\ loc' = [loc EXCEPT ![r] = IF o.ret = RetNone THEN NoObj ELSE o.ret.v]
    /\ own' = [own EXCEPT ![r] = [same |-> o.ret # RetNone, born |-> Len(log) + Len(o.ops)]]

\* uad.set_<r>() whose refresh read succeeded stores a new object in the
\* session: a local bound earlier keeps referring to the old one
Unbound(r, o) ==
    /\ loc' = loc
    /\ own' = [own EXCEPT ![r].same =
                     own[r].same /\ ~(o.ops # <<>> /\ o.ops[Len(o.ops)].status = 0)]

\* fields assigned through the local r (a sequence of <<name, value>>); the
\* object is the session's own while the local still refers to it
RECURSIVE SetAll(_, _)
SetAll(self, fs) ==
    IF fs = <<>> THEN self ELSE SetAll(SetAttr(self, fs[1][1], fs[1][2]), Tail(fs))

Mutated(l, sn, r, fs) ==
    [loc |-> [l EXCEPT ![r] = SetAll(l[r], fs)],
     snap |-> IF own[r].same THEN [sn EXCEPT ![r] = SetAll(l[r], fs)] ELSE sn]

\* str(reg): the fields of the layout in hexadecimal; str(None) for None
Str(r, o) == IF o = NoObj THEN NoObj ELSE [a \in Attrs(r) |-> hex(Bits(o[a]))]

\* print(reg); born and at are the numbers of device operations issued when
\* the object was read and when it is printed
Printed(r, o, born, at) ==
    [kind |-> "print", reg |-> r, text |-> Str(r, o), obj |-> o, born |-> born, at |-> at]
Text(t) == [kind |-> "text", text |-> t]

Crash == pc' = "crashed"
Fixed == UNCHANGED <<por, last, nops, codecVars, convVars, test, args>>

\* ---- dump (lines 233-236)
Dump(r, next) ==
    /\ test = "dump" /\ pc = r
    /\ \E o \in get_reg(r, mem, dev_en, snap) :
          /\ Apply(o)
          /\ Bound(r, o)
          /\ output' = Append(output, Printed(r, loc'[r], Len(log'), Len(log')))
    /\ pc' = next
    /\ Fixed

DumpCsr == Dump("csr", "coef")
DumpCoef == Dump("coef", "outcap")
DumpOutcap == Dump("outcap", "done")

\* ---- set (lines 238-247)
SetGet ==
    /\ test = "set" /\ pc = "get_reg"
    /\ \E o \in get_reg(args.reg, mem, dev_en, snap) : Apply(o) /\ Bound(args.reg, o)
    /\ pc' = "setattr"
    /\ UNCHANGED output
    /\ Fixed

SetSetattr ==
    /\ test = "set" /\ pc = "setattr"
    /\ IF loc[args.reg] = NoObj
       THEN Crash /\ UNCHANGED <<loc, snap>>
       ELSE LET n == Mutated(loc, snap, args.reg, <<<<args.field, args.value>>>>) IN
            /\ loc' = n.loc
            /\ snap' = n.snap
            /\ pc' = "set_reg"
    /\ UNCHANGED <<mem, dev_en, log, own, output>>
    /\ Fixed

SetSet ==
    /\ test = "set" /\ pc = "set_reg"
    /\ \E o \in set_reg(args.reg, mem, dev_en, snap) :
          /\ Apply(o)
          /\ Unbound(args.reg, o)
          /\ pc' = IF o.raised THEN "crashed" ELSE "print"
    /\ UNCHANGED output
    /\ Fixed

SetPrint ==
    /\ test = "set" /\ pc = "print"
    /\ output' = Append(output,
                        Printed(args.reg, loc[args.reg], own[args.reg].born, Len(log)))
    /\ pc' = "done"
    /\ UNCHANGED <<mem, dev_en, snap, log, loc, own>>
    /\ Fixed

\* ---- tc1 (lines 316-333)
Tc1Disable ==
    /\ test = "tc1" /\ pc = "disable"
    /\ \E o \in disable(mem, dev_en, por, snap) : Apply(o)
    /\ output' = Append(output, Text("Running Testcase 1: Global enable/disable"))
    /\ pc' = "get_csr_1"
    /\ UNCHANGED <<loc, own>>
    /\ Fixed

Tc1Get1 ==
    /\ test = "tc1" /\ pc = "get_csr_1"
    /\ \E o \in get_csr(mem, dev_en, snap) :
          /\ Apply(o)
          /\ Bound("csr", o)
          /\ output' = Append(output,
                 IF loc'.csr = NoObj
                 THEN Text("[PASS] CSR access blocked when disabled")
                 ELSE Text("[FAIL] CSR access still allowed when disabled"))
    /\ pc' = "enable"
    /\ Fixed

Tc1Enable ==
    /\ test = "tc1" /\ pc = "enable"
    /\ \E o \in enable(mem, dev_en, por, snap) : Apply(o)
    /\ pc' = "get_csr_2"
    /\ UNCHANGED <<loc, own, output>>
    /\ Fixed

Tc1Get2 ==
    /\ test = "tc1" /\ pc = "get_csr_2"
    /\ \E o \in get_csr(mem, dev_en, snap) : Apply(o) /\ Bound("csr", o)
    /\ output' = Append(output, Text("[PASS] CSR access restored when enabled"))
    /\ pc' = "done"
    /\ Fixed

\* ---- config (lines 249-264)
CfgGet1 ==
    /\ test = "config" /\ pc = "get_csr_1"
    /\ \E o \in get_csr(mem, dev_en, snap) : Apply(o) /\ Bound("csr", o)
    /\ pc' = "halt"
    /\ UNCHANGED output
    /\ Fixed

\* mutant: the halt bit is not set before the first write
CfgHalt_missing ==
    /\ test = "config" /\ pc = "halt"
    /\ IF loc.csr = NoObj
       THEN Crash /\ UNCHANGED <<loc, snap>>
       ELSE loc' = loc /\ snap' = snap /\ pc' = "set_csr_1"
    /\ UNCHANGED <<mem, dev_en, log, own, output>>
    /\ Fixed

CfgHalt ==
    /\ test = "config" /\ pc = "halt"
    /\ IF loc.csr = NoObj
       THEN Crash /\ UNCHANGED <<loc, snap>>
       ELSE LET n == Mutated(loc, snap, "csr", <<<<"halt", 1>>>>) IN
            loc' = n.loc /\ snap' = n.snap /\ pc' = "set_csr_1"
    /\ UNCHANGED <<mem, dev_en, log, own, output>>
    /\ Fixed

CfgSet1 ==
    /\ test = "config" /\ pc = "set_csr_1"
    /\ \E o \in set_csr(mem, dev_en, snap) :
          Apply(o) /\ Unbound("csr", o) /\ pc' = IF o.raised THEN "crashed" ELSE "get_coef"
    /\ UNCHANGED output
    /\ Fixed

CfgGetCoef ==
    /\ test = "config" /\ pc = "get_coef"
    /\ \E o \in get_coef(mem, dev_en, snap) : Apply(o) /\ Bound("coef", o)
    /\ pc' = "get_csr_2"
    /\ UNCHANGED output
    /\ Fixed

CfgGet2 ==
    /\ test = "config" /\ pc = "get_csr_2"
    /\ \E o \in get_csr(mem, dev_en, snap) : Apply(o) /\ Bound("csr", o)
    /\ pc' = "rows"
    /\ UNCHANGED output
    /\ Fixed

\* f'c{row["coef"]}en' and f'c{row["coef"]}'
CoefEnName(k) == <<"c0en", "c1en", "c2en", "c3en", "c4en">>[k + 1]
CoefName(k) == <<"c0", "c1", "c2", "c3", "c4">>[k + 1]

CfgRow ==
    /\ test = "config" /\ pc = "rows" /\ loc.i <= Len(args.rows)
    /\ LET row == args.rows[loc.i] IN
       IF loc.csr = NoObj
       THEN Crash /\ UNCHANGED <<loc, snap>>
       ELSE LET n == Mutated(loc, snap, "csr", <<<<CoefEnName(row.coef), row.en>>>>) IN
            IF loc.coef = NoObj
            THEN Crash /\ loc' = n.loc /\ snap' = n.snap
            ELSE LET k == Mutated(n.loc, n.snap, "coef", <<<<CoefName(row.coef), row.value>>>>) IN
                 /\ loc' = [k.loc EXCEPT !.i = loc.i + 1]
                 /\ snap' = k.snap
                 /\ pc' = "rows"
    /\ UNCHANGED <<mem, dev_en, log, own, output>>
    /\ Fixed

CfgUnhalt ==
    /\ test = "config" /\ pc = "rows" /\ loc.i > Len(args.rows)
    /\ IF loc.csr = NoObj
       THEN Crash /\ UNCHANGED <<loc, snap>>
       ELSE LET n == Mutated(loc, snap, "csr", <<<<"halt", 0>>>>) IN
            loc' = n.loc /\ snap' = n.snap /\ pc' = "set_coef"
    /\ UNCHANGED <<mem, dev_en, log, own, output>>
    /\ Fixed

CfgSetCoef ==
    /\ test = "config" /\ pc = "set_coef"
    /\ \E o \in set_coef(mem, dev_en, snap) :
          Apply(o) /\ Unbound("coef", o) /\ pc' = IF o.raised THEN "crashed" ELSE "set_csr_2"
    /\ UNCHANGED output
    /\ Fixed

CfgSet2 ==
    /\ test = "config" /\ pc = "set_csr_2"
    /\ \E o \in set_csr(mem, dev_en, snap) :
          Apply(o) /\ Unbound("csr", o) /\ pc' = IF o.raised THEN "crashed" ELSE "done"
    /\ UNCHANGED output
    /\ Fixed

\* ---- drive (lines 266-284; the plot is left out)
DrvGet ==
    /\ test = "drive" /\ pc = "get_csr"
    /\ \E o \in get_csr(mem, dev_en, snap) : Apply(o) /\ Bound("csr", o)
    /\ pc' = "clear"
    /\ UNCHANGED output
    /\ Fixed

DrvClear ==
    /\ test = "drive" /\ pc = "clear"
    /\ IF loc.csr = NoObj
       THEN Crash /\ UNCHANGED <<loc, snap>>
       ELSE LET n == Mutated(loc, snap, "csr", <<<<"fen", 1>>, <<"tclr", 1>>, <<"ibclr", 1>>>>) IN
            loc' = n.loc /\ snap' = n.snap /\ pc' = "set_csr"
    /\ UNCHANGED <<mem, dev_en, log, own, output>>
    /\ Fixed

DrvSet ==
    /\ test = "drive" /\ pc = "set_csr"
    /\ \E o \in set_csr(mem, dev_en, snap) :
          Apply(o) /\ Unbound("csr", o) /\ pc' = IF o.raised THEN "crashed" ELSE "drive"
    /\ UNCHANGED output
    /\ Fixed

DrvSample ==
    /\ test = "drive" /\ pc = "drive" /\ loc.i <= Len(args.samples)
    /\ \E o \in drive_signal(mem, dev_en, snap, args.samples[loc.i]) :
          /\ Apply(o)
          /\ IF o.raised
             THEN Crash /\ loc' = loc
             ELSE /\ loc' = [loc EXCEPT !.sig_out = Append(loc.sig_out, o.ret.v), !.i = loc.i + 1]
                  /\ pc' = "drive"
    /\ UNCHANGED <<own, output>>
    /\ Fixed

\* mutant: the converted samples are written last first
DrvWrite_reversed ==
    /\ test = "drive" /\ pc = "drive" /\ loc.i > Len(args.samples)
    /\ output' = output \o [j \in 1 .. Len(loc.sig_out) |->
                              [kind |-> "vec",
                               value |-> twos_comp(loc.sig_out[Len(loc.sig_out) + 1 - j])]]
    /\ pc' = "done"
    /\ UNCHANGED <<mem, dev_en, snap, log, loc, own>>
    /\ Fixed

DrvWrite ==
    /\ test = "drive" /\ pc = "drive" /\ loc.i > Len(args.samples)
    /\ output' = output \o [j \in 1 .. Len(loc.sig_out) |->
                              [kind |-> "vec", value |-> twos_comp(loc.sig_out[j])]]
    /\ pc' = "done"
    /\ UNCHANGED <<mem, dev_en, snap, log, loc, own>>
    /\ Fixed

\* ---- por (lines 295-314)
PorReset ==
    /\ test = "por" /\ pc = "reset"
    /\ \E o \in reset(mem, dev_en, por, snap) : Apply(o)
    /\ pc' = "get_csr"
    /\ UNCHANGED <<loc, own, output>>
    /\ Fixed

PorGet(r, here, next) ==
    /\ test = "por" /\ pc = here
    /\ \E o \in get_reg(r, mem, dev_en, snap) : Apply(o) /\ Bound(r, o)
    /\ pc' = next
    /\ UNCHANGED output
    /\ Fixed

PorGetCsr == PorGet("csr", "get_csr", "get_coef")
PorGetCoef == PorGet("coef", "get_coef", "get_outcap")
PorGetOutcap == PorGet("outcap", "get_outcap", "rows")

\* mutant: the expected and the actual value change places in the report
Mismatch_swapped(row, actual_value, expected_value) ==
    [kind |-> "mismatch", register |-> row.register, field |-> row.field,
     expected |-> hex(Bits(actual_value)), got |-> hex(Bits(expected_value))]

Mismatch(row, actual_value, expected_value) ==
    [kind |-> "mismatch", register |-> row.register, field |-> row.field,
     expected |-> hex(Bits(expected_value)), got |-> hex(Bits(actual_value))]

PorRow ==
    /\ test = "por" /\ pc = "rows" /\ loc.i <= Len(args.rows)
    /\ LET row == args.rows[loc.i]
           reg == IF row.register \in {"csr", "coef", "outcap"} THEN loc[row.register] ELSE NoObj
       IN  IF reg = NoObj \/ row.field \notin DOMAIN reg
           THEN Crash /\ UNCHANGED <<loc, output>>
           ELSE /\ output' = IF reg[row.field] # row.value
                             THEN Append(output, Mismatch(row, reg[row.field], row.value))
                             ELSE output
                /\ loc' = [loc EXCEPT !.i = loc.i + 1]
                /\ pc' = "rows"
    /\ UNCHANGED <<mem, dev_en, snap, log, own>>
    /\ Fixed

PorEnd ==
    /\ test = "por" /\ pc = "rows" /\ loc.i > Len(args.rows)
    /\ pc' = "done"
    /\ UNCHANGED <<mem, dev_en, snap, log, loc, own, output>>
    /\ Fixed

\* ---- inputs
RECURSIVE SeqsUpTo(_, _)
SeqsUpTo(S, n) ==
    IF n = 0 THEN {<<>>}
    ELSE SeqsUpTo(S, n - 1) \cup {Append(q, x) : q \in SeqsUpTo(S, n - 1), x \in S}

ConfigRows ==
    {[coef |-> 0, en |-> 1, value |-> 16],
     [coef |-> 2, en |-> 1, value |-> 32],
     [coef |-> 0, en |-> 0, value |-> 288],
     [coef |-> 1, en |-> 3, value |-> 255],
     [coef |-> 3, en |-> 0, value |-> 0]}

PorRows ==
    {[register |-> "csr", field |-> "halt", value |-> 0],
     [register |-> "coef", field |-> "c0", value |-> 109],
     [register |-> "outcap", field |-> "rsvd", value |-> 0],
     [register |-> "csr", field |-> "bogus", value |-> 0],
     [register |-> "misc", field |-> "c0", value |-> 0]}

ArgsOf(t) ==
    CASE t = "set" ->
           {[NoArgs EXCEPT !.reg = r, !.field = f, !.value = v] :
              r \in RegNames, f \in {"halt", "ibcnt", "c0", "c3", "hcap", "rsvd", "bogus"},
              v \in {0, 511}}
      [] t = "config" -> {[NoArgs EXCEPT !.rows = q] : q \in SeqsUpTo(ConfigRows, MaxRows)}
      [] t = "por" -> {[NoArgs EXCEPT !.rows = q] : q \in SeqsUpTo(PorRows, MaxRows)}
      [] t = "drive" -> {[NoArgs EXCEPT !.samples = q] : q \in SeqsUpTo(Samples, MaxSamples)}
      [] OTHER -> {NoArgs}

FirstPc(t) ==
    CASE t = "dump" -> "csr"
      [] t = "set" -> "get_reg"
      [] t = "config" -> "get_csr_1"
      [] t = "drive" -> "get_csr"
      [] t = "por" -> "reset"
      [] t = "tc1" -> "disable"

Tests == {"dump", "set", "por", "config", "drive", "tc1"}

InitMain ==
    /\ test \in Tests
    /\ \E a \in ArgsOf(test), m0 \in PorImages :
          /\ args = [a EXCEPT !.start = m0]
          /\ mem = m0
    /\ pc = FirstPc(test)
    /\ loc = NoLocals
    /\ own = NoOwn
    /\ output = <<>>
    /\ log = <<>>
    /\ por \in PorImages
    /\ dev_en \in BOOLEAN
    /\ snap = [r \in RegNames |-> NoObj]
    /\ last = [op |-> "none", reg |-> "", name |-> "", ret |-> RetNone,
               raised |-> FALSE, ops |-> <<>>]
    /\ nops = 0
    /\ CodecOff
    /\ ConvOff

NextMain ==
    \/ DumpCsr \/ DumpCoef \/ DumpOutcap
    \/ SetGet \/ SetSetattr \/ SetSet \/ SetPrint
    \/ CfgGet1 \/ CfgHalt \/ CfgSet1 \/ CfgGetCoef \/ CfgGet2 \/ CfgRow
    \/ CfgUnhalt \/ CfgSetCoef \/ CfgSet2
    \/ DrvGet \/ DrvClear \/ DrvSet \/ DrvSample \/ DrvWrite
    \/ PorReset \/ PorGetCsr \/ PorGetCoef \/ PorGetOutcap \/ PorRow \/ PorEnd
    \/ Tc1Disable \/ Tc1Get1 \/ Tc1Enable \/ Tc1Get2

SpecMain == InitMain /\ [][NextMain]_vars

(***************************************************************************)
(* Declared field widths (spec, section 3)                                  *)
(***************************************************************************)
DeclaredWidth(r, f) ==
    CASE r = "csr" ->
           (CASE f \in {"fen", "c0en", "c1en", "c2en", "c3en", "halt", "ibovf",
                        "ibclr", "tclr", "icoef", "icap"} -> 1
              [] f \in {"sts", "rnd"} -> 2
              [] f = "ibcnt" -> 8
              [] f = "rsvd" -> 10)
      [] r = "coef" -> 8
      [] r = "outcap" -> (IF f = "rsvd" THEN 16 ELSE 8)

(***************************************************************************)
(* Claims about the codec (SpecCodec)                                       *)
(***************************************************************************)
\* C1: decoding a 32-bit word and encoding the unmodified object returns the
\* same word, for each of the three layouts, reserved bits included.
C1_RoundTrip ==
    (phase = "encoded" /\ asg = <<>>) => enc = bin

\* C2: a value assigned to a field of declared width w reads back, after
\* encode and decode, as the value modulo 2^w.
C2_Masking ==
    (phase = "redecoded" /\ asg # <<>>) =>
        obj2[asg[1]] = asg[2] % (2 ^ DeclaredWidth(layout, asg[1]))

\* C3: after assigning one field, encoding and decoding, every other field
\* has the value it had in the decode of the original word.
C3_FieldIsolation ==
    (phase = "redecoded" /\ asg # <<>>) =>
        \A g \in Attrs(layout) \ {asg[1]} : obj2[g] = Decode(layout, bin)[g]

(***************************************************************************)
(* Claims about the signed conversion (SpecConv)                            *)
(***************************************************************************)
Converted == conv.d = 64

\* C10: for every 8-bit v, 64 * twos_comp(v) is v when v < 128 and v - 256
\* otherwise; 0x00 -> 0.0, 0x40 -> 1.0, 0x7F -> 1.984375, 0x80 -> -2.0,
\* 0xFF -> -0.015625; the result lies in [-2.0, 1.984375].
C10_TwosComp ==
    (Converted /\ num <= 255) =>
        /\ 64 * conv.n = (IF num < 128 THEN num ELSE num - 256) * conv.d
        /\ num = 0 => conv.n = 0
        /\ num = 64 => conv.n = conv.d
        /\ num = 127 => 1000000 * conv.n = 1984375 * conv.d
        /\ num = 128 => conv.n = (-2) * conv.d
        /\ num = 255 => 1000000 * conv.n = (-15625) * conv.d
        /\ (-2) * conv.d <= conv.n
        /\ 1000000 * conv.n <= 1984375 * conv.d

C10_Witness == Converted /\ num = 255 /\ conv.n < 0

(***************************************************************************)
(* Claims about the device session (Spec)                                   *)
(***************************************************************************)
\* the fixed register addresses (spec, section 3)
FixedAddr(r) == CASE r = "csr" -> 0
                  [] r = "coef" -> 4
                  [] r = "outcap" -> 8

Kinds(ops) == [i \in 1 .. Len(ops) |-> ops[i].kind]

\* this step is a call of op on register r
Calls(op, r) == nops' = nops + 1 /\ last'.op = op /\ last'.reg = r

\* C4: set on a held snapshot issues one write of the snapshot's encoding to
\* the register's address, then one read of that address; it returns the
\* status of the write; when both succeed the snapshot is the decode of the
\* word the device holds.
C4_SetWriteThenRefresh ==
    [][\A r \in RegNames :
         (Calls("set", r) /\ snap[r] # NoObj) =>
            /\ Kinds(last'.ops) = <<"cfg_write", "cfg_read">>
            /\ Val(int0(last'.ops[1].addr)) = FixedAddr(r)
            /\ int0(last'.ops[1].data) = Encode(r, snap[r])
            /\ Val(int0(last'.ops[2].addr)) = FixedAddr(r)
            /\ ~last'.raised
            /\ last'.ret = RetInt(last'.ops[1].status)
            /\ (last'.ops[1].status = 0 /\ last'.ops[2].status = 0) =>
                  snap'[r] = Decode(r, mem'[FixedAddr(r)])]_vars

C4_Witness ==
    /\ last.op = "set" /\ ~last.raised
    /\ Len(last.ops) = 2
    /\ last.ops[1].status = 0 /\ last.ops[2].status = 0
    /\ int0(last.ops[1].data) # por[FixedAddr(last.reg)]
    /\ snap[last.reg] = Decode(last.reg, mem[FixedAddr(last.reg)])

\* C5: get returns None, without raising, when the configure read reports a
\* nonzero status, and otherwise the decode of the word the device returned
\* for the register's fixed address.
C5_GetAbsentOrDecoded ==
    [][\A r \in RegNames :
         Calls("get", r) =>
            /\ Kinds(last'.ops) = <<"cfg_read">>
            /\ Val(int0(last'.ops[1].addr)) = FixedAddr(r)
            /\ ~last'.raised
            /\ IF last'.ops[1].status # 0
               THEN last'.ret = RetNone
               ELSE /\ last'.ret = RetObj(Decode(r, int0(last'.ops[1].out)))
                    /\ int0(last'.ops[1].out) = mem[FixedAddr(r)]]_vars

C5_Witness ==
    /\ last.op = "get" /\ dev_en
    /\ last.ops[1].status # 0
    /\ last.ret = RetNone /\ ~last.raised

\* C6 (as stated): after any get of a register the stored snapshot is the
\* result of that read, never that of an earlier read.
C6_EveryGetOverwrites ==
    last.op = "get" =>
        IF last.ret = RetNone
        THEN snap[last.reg] = NoObj
        ELSE snap[last.reg] = last.ret.v

\* C6 (amended): a successful get of a register overwrites its snapshot with
\* the result of that read; a failed get leaves the stored snapshot as it
\* was, which may be the result of an earlier read.
C6_SuccessfulGetOverwrites ==
    [][\A r \in RegNames :
         Calls("get", r) =>
            IF last'.ops[1].status = 0
            THEN /\ snap'[r] = Decode(r, int0(last'.ops[1].out))
                 /\ last'.ret = RetObj(snap'[r])
            ELSE snap'[r] = snap[r]]_vars

C6_Witness ==
    /\ last.op = "get" /\ last.ret = RetNone
    /\ snap[last.reg] # NoObj

\* C7: set on a register whose snapshot is absent raises: no device
\* operation is issued, no snapshot is created, the snapshots are unchanged.
C7_SetWithoutGetRaises ==
    [][\A r \in RegNames :
         (Calls("set", r) /\ snap[r] = NoObj) =>
            /\ last'.raised
            /\ last'.ops = <<>>
            /\ mem' = mem
            /\ snap' = snap]_vars

C7_Witness ==
    /\ last.op = "set" /\ last.raised
    /\ snap[last.reg] = NoObj
    /\ \E q \in RegNames : snap[q] # NoObj

\* C8: assigning a field name that is not part of the register's layout
\* raises an error; a register object never carries such a field into a
\* following set.
C8_UnknownFieldRaises ==
    /\ (last.op = "assign" /\ last.name \notin Attrs(last.reg)) => last.raised
    /\ \A r \in RegNames : snap[r] # NoObj => DOMAIN snap[r] \subseteq Attrs(r)

\* C9 (as stated): every get issues exactly one configure read, every
\* reset, enable and disable one command, every drive one signal operation,
\* every set one write followed by one read, whatever their statuses.
C9_ExactlyOnce ==
    /\ last.op = "get" => Kinds(last.ops) = <<"cfg_read">>
    /\ last.op \in {"reset", "enable", "disable"} =>
          /\ Kinds(last.ops) = <<"com">>
          /\ last.ops[1].action = last.op
    /\ last.op = "drive" => Kinds(last.ops) = <<"sig">>
    /\ last.op = "set" => Kinds(last.ops) = <<"cfg_write", "cfg_read">>

\* C9 (amended): as stated, except that a set issues its one write and one
\* read only when a snapshot of the register is held; with no snapshot it
\* raises before any device operation is issued.
C9_ExactlyOnceWhenHeld ==
    [][/\ \A r \in RegNames :
            Calls("get", r) => Kinds(last'.ops) = <<"cfg_read">>
       /\ \A c \in {"reset", "enable", "disable"} :
            Calls(c, "") => /\ Kinds(last'.ops) = <<"com">>
                            /\ last'.ops[1].action = c
       /\ Calls("drive", "") => Kinds(last'.ops) = <<"sig">>
       /\ \A r \in RegNames :
            Calls("set", r) =>
               IF snap[r] = NoObj
               THEN last'.ops = <<>>
               ELSE Kinds(last'.ops) = <<"cfg_write", "cfg_read">>]_vars

C9_Witness ==
    /\ last.op = "set"
    /\ Kinds(last.ops) = <<"cfg_write", "cfg_read">>
    /\ last.ops[1].status # 0 /\ last.ops[2].status # 0

\* C17: for non-negative field values, encode returns a value that fits in
\* 32 bits, for each of the three layouts.
C17_EncodeFits32 ==
    phase = "encoded" => enc \subseteq AllOnes

\* the refresh read of this call, when it succeeded
ReadOk(l) ==
    /\ l.ops # <<>>
    /\ l.ops[Len(l.ops)].kind = "cfg_read"
    /\ l.ops[Len(l.ops)].status = 0

\* C18: the stored snapshot of a register is replaced only by a successful
\* get of that register, called directly or as the refresh of its set;
\* reset, enable, disable, drive, a failed get and get or set of another
\* register leave it unchanged, whatever they do to the device.
C18_SnapshotFrame ==
    [][\A r \in RegNames :
         (nops' = nops + 1 /\ last'.op # "assign") =>
            IF last'.op \in {"get", "set"} /\ last'.reg = r /\ ReadOk(last')
            THEN snap'[r] = Decode(r, mem'[FixedAddr(r)])
            ELSE snap'[r] = snap[r]]_vars

C18_Witness ==
    /\ last.op = "reset" /\ last.ret = RetInt(0)
    /\ snap["csr"] # NoObj
    /\ snap["csr"] # Csr(mem[CSR_ADDR])

(***************************************************************************)
(* Claims about the test scenarios (SpecMain)                               *)
(***************************************************************************)
RegAt(a) == CHOOSE r \in RegNames : FixedAddr(r) = a

\* what a device operation is: its kind, and its action or register
Tag(op) ==
    [k |-> op.kind,
     a |-> CASE op.kind = "com" -> op.action
             [] op.kind = "sig" -> ""
             [] OTHER -> RegAt(Val(int0(op.addr)))]

Tags == [i \in 1 .. Len(log) |-> Tag(log[i].op)]
IsPrefix(p, q) == Len(p) <= Len(q) /\ p = SubSeq(q, 1, Len(p))
Range(q) == {q[i] : i \in 1 .. Len(q)}

\* the device failed no operation other than a configure operation issued
\* while it was disabled
Healthy ==
    \A i \in 1 .. Len(log) :
        log[i].op.status # 0 => (log[i].op.kind \in {"cfg_read", "cfg_write"} /\ ~log[i].en)

Tc1Ops ==
    <<[k |-> "com", a |-> "disable"], [k |-> "cfg_read", a |-> "csr"],
      [k |-> "com", a |-> "enable"], [k |-> "cfg_read", a |-> "csr"]>>

\* C11: tc1 issues disable, a CSR read, enable and a second CSR read, in that
\* order; against a device that rejects configure operations while disabled
\* (and fails nothing else) the first read returns None and the second a Csr.
C11_DisabledBlocksAccess ==
    test = "tc1" =>
        /\ IsPrefix(Tags, Tc1Ops)
        /\ pc = "done" => Tags = Tc1Ops
        /\ (pc \in {"enable", "get_csr_2"} /\ Healthy) => loc.csr = NoObj
        /\ (pc = "done" /\ Healthy) => (loc.csr # NoObj /\ loc.csr = Csr(mem[CSR_ADDR]))

C11_Witness ==
    /\ test = "tc1" /\ pc = "done" /\ Healthy
    /\ output[2] = Text("[PASS] CSR access blocked when disabled")
    /\ loc.csr = Csr(mem[CSR_ADDR])

\* C19: tc1 reports "[PASS] CSR access restored when enabled" only if the CSR
\* read after enable returned a Csr, and "[PASS] CSR access blocked when
\* disabled" only if the CSR read after disable returned None.
C19_PassOnlyWhenObserved ==
    test = "tc1" =>
        /\ (pc \in {"enable", "get_csr_2"}
              /\ Text("[PASS] CSR access blocked when disabled") \in Range(output))
             => loc.csr = NoObj
        /\ (pc = "done"
              /\ Text("[PASS] CSR access restored when enabled") \in Range(output))
             => loc.csr # NoObj

\* the rows that no later row of the file overrides
LastRows == {i \in 1 .. Len(args.rows) :
               \A j \in (i + 1) .. Len(args.rows) : args.rows[j].coef # args.rows[i].coef}

ExampleRows == <<[coef |-> 0, en |-> 1, value |-> 16], [coef |-> 2, en |-> 1, value |-> 32]>>

EnablesClear(w) ==
    Csr(w).c0en = 0 /\ Csr(w).c1en = 0 /\ Csr(w).c2en = 0 /\ Csr(w).c3en = 0

\* the example of the claim: slots 0 and 2 enabled with 0x10 and 0x20 on a
\* device whose coefficient-enable bits were all 0
C12_Example ==
    (args.rows = ExampleRows /\ EnablesClear(args.start[CSR_ADDR])) =>
        /\ Coef(mem[COEF_ADDR]).c0 = 16 /\ Coef(mem[COEF_ADDR]).c2 = 32
        /\ Csr(mem[CSR_ADDR]).c0en = 1 /\ Csr(mem[CSR_ADDR]).c1en = 0
        /\ Csr(mem[CSR_ADDR]).c2en = 1 /\ Csr(mem[CSR_ADDR]).c3en = 0
        /\ Csr(mem[CSR_ADDR]).halt = 0

RowsApplied(I) ==
    \A i \in I :
        /\ Coef(mem[COEF_ADDR])[CoefName(args.rows[i].coef)] = args.rows[i].value % 256
        /\ Csr(mem[CSR_ADDR])[CoefEnName(args.rows[i].coef)] = args.rows[i].en % 2

\* C12 (as stated): on an enabled device that stores what is written, the
\* config scenario ends with the example's values on the device and, in
\* general, with ck = value mod 256 and cken = en mod 2 for each row.
C12_ConfigEveryRow ==
    (test = "config" /\ pc = "done" /\ Healthy) =>
        /\ C12_Example
        /\ RowsApplied(1 .. Len(args.rows))

\* C12 (amended): as stated, with the general part for each row that no
\* later row for the same slot overrides.
C12_ConfigLastRows ==
    (test = "config" /\ pc = "done" /\ Healthy) =>
        /\ C12_Example
        /\ RowsApplied(LastRows)
        /\ snap.coef = Coef(mem[COEF_ADDR])
        /\ snap.csr = Csr(mem[CSR_ADDR])

C12_Witness ==
    /\ test = "config" /\ pc = "done" /\ Healthy
    /\ args.rows = ExampleRows /\ EnablesClear(args.start[CSR_ADDR])
    /\ Coef(mem[COEF_ADDR]).c0 = 16 /\ Csr(mem[CSR_ADDR]).c2en = 1

IsWrite(e) == e.op.kind = "cfg_write"
Writes == SelectSeq(log, IsWrite)

\* C15: the config scenario writes the CSR with halt = 1, then the
\* coefficient register, then the CSR with halt = 0 and the new enable bits;
\* once the first write has succeeded the device's halt bit is 1 until the
\* last write, so it is 1 when the coefficient register is written.
C15_HaltAroundCoefWrite ==
    test = "config" =>
        /\ IsPrefix([i \in 1 .. Len(Writes) |-> Tag(Writes[i].op).a], <<"csr", "coef", "csr">>)
        /\ pc = "done" => Len(Writes) = 3
        /\ Len(Writes) >= 1 => Csr(int0(Writes[1].op.data)).halt = 1
        /\ (Len(Writes) \in {1, 2} /\ Writes[1].op.status = 0) => Csr(mem[CSR_ADDR]).halt = 1
        /\ Len(Writes) = 3 =>
              /\ Csr(int0(Writes[3].op.data)).halt = 0
              /\ \A i \in LastRows :
                    Csr(int0(Writes[3].op.data))[CoefEnName(args.rows[i].coef)]
                       = args.rows[i].en % 2
              /\ Writes[3].op.status = 0 => Csr(mem[CSR_ADDR]).halt = 0

C15_Witness ==
    /\ test = "config" /\ pc = "set_csr_2"
    /\ Len(Writes) = 2
    /\ Writes[1].op.status = 0 /\ Writes[2].op.status = 0
    /\ Csr(mem[CSR_ADDR]).halt = 1
    /\ Coef(mem[COEF_ADDR]) # Coef(args.start[COEF_ADDR])

IsSig(e) == e.op.kind = "sig"
Sigs == SelectSeq(log, IsSig)

\* the invocations made so far carry the first samples in order, follow one
\* another with no other device operation between them, and only the last
\* one can have failed
DriveInOrder ==
    /\ Len(Sigs) <= Len(args.samples)
    /\ \A i \in 1 .. Len(Sigs) :
          /\ Sigs[i].op.data = str(args.samples[i])
          /\ i < Len(Sigs) => Sigs[i].op.status = 0
    /\ \A i, j \in 1 .. Len(log) : (i < j /\ IsSig(log[i])) => IsSig(log[j])

PorOps ==
    <<[k |-> "com", a |-> "reset"], [k |-> "cfg_read", a |-> "csr"],
      [k |-> "cfg_read", a |-> "coef"], [k |-> "cfg_read", a |-> "outcap"]>>

\* the register object decoded from the read of register r after the reset,
\* None when that read failed or was not made
ReadAfterReset(r) ==
    LET at == {i \in 2 .. Len(log) : Tags[i] = [k |-> "cfg_read", a |-> r]} IN
    IF at = {} THEN NoObj
    ELSE LET e == log[CHOOSE i \in at : TRUE].op IN
         IF e.status = 0 THEN Decode(r, int0(e.out)) ELSE NoObj

\* a row that names one of the three registers, read successfully, and a
\* field of its layout
RowReadable(row) ==
    /\ row.register \in RegNames
    /\ ReadAfterReset(row.register) # NoObj
    /\ row.field \in Attrs(row.register)

RowDiffers(row) == ReadAfterReset(row.register)[row.field] # row.value

RowReport(row) ==
    [kind |-> "mismatch", register |-> row.register, field |-> row.field,
     expected |-> hex(Bits(row.value)),
     got |-> hex(Bits(ReadAfterReset(row.register)[row.field]))]

\* the reports of the first k rows, in order
RECURSIVE RowReports(_)
RowReports(k) ==
    IF k = 0 THEN <<>>
    ELSE IF RowDiffers(args.rows[k])
         THEN Append(RowReports(k - 1), RowReport(args.rows[k]))
         ELSE RowReports(k - 1)

Since(e) == {j \in 1 .. Len(log) : e.born < j /\ j <= e.at}

\* C16: an object a scenario prints was produced by a read that no write of
\* the same register has followed.
C16_InspectsFreshOnly ==
    \A i \in 1 .. Len(output) :
        output[i].kind = "print" =>
            \A j \in Since(output[i]) :
                Tags[j] # [k |-> "cfg_write", a |-> output[i].reg]

====
